---- MODULE Spec2Model ----
(***************************************************************************)
(* Vibe-Buddy: the agent tool-calling loop of store.tsx (sendMessage,      *)
(* processTurn, executeTool, stopAgent) and the context bundling pipeline  *)
(* of ExportModal.tsx (scanProject, cancelScan).                           *)
(*                                                                         *)
(* JavaScript runs one task at a time: every action below is the code that *)
(* runs between two suspension points (await) of one async function, or a  *)
(* whole synchronous handler.                                              *)
(***************************************************************************)
EXTENDS Integers, Sequences, FiniteSets, Bags, TLC

\* ------------------------------------------------------------------ bounds
MaxSends == 2      \* sendMessage calls made
MaxTurns == 2      \* model turns (processTurn frames) of one sendMessage
MaxChunks == 2     \* chunks the streams yield, all together
MaxCalls == 2      \* tool-invocation requests the streams yield, all together

MaxScans == 1      \* scanProject calls made
NumFiles == 6      \* files of the loaded project
MaxBad == 1        \* files of the project that are empty, binary or unreadable

MaxPaths == 2      \* files of a project the store holds
MaxToolCalls == 2  \* requests of the tool loop of one model turn
MaxEntries == 3    \* files of a project on offer to the tree constructions
MaxPathLen == 5    \* characters of a path given to isGitIgnored
MaxRuleLen == 4    \* characters of a rule given to isGitIgnored
MaxTokens == 5     \* pieces of a name given to isSystemIgnored
NumUrls == 6       \* repository URLs that are imported
MaxImports == 2    \* calls of importGithubProject awaiting at one time
MaxToggles == 2    \* calls of toggleFileSelection awaiting at one time

\* store.tsx
SliceLimit == 10000    \* content.slice(0, 10000)
RecentLimit == 5       \* [url, ...filtered].slice(0, 5)

\* ExportModal.tsx
CHUNK_SIZE == 5
RecordOverhead == 42   \* the characters of a <file> record around its path and content

Sends == 1..MaxSends
Scans == 1..MaxScans
ToolNames == {"read_file", "select_files"}

\* ------------------------------------------------------------- sequences
Last(s) == s[Len(s)]
Front(s) == SubSeq(s, 1, Len(s) - 1)
IsPrefix(s, t) == Len(s) <= Len(t) /\ SubSeq(t, 1, Len(s)) = s
SeqsUpTo(S, n) == UNION {[1..k -> S] : k \in 0..n}

VARIABLES
  \* store.tsx, AppProvider
  agentActivity,    \* useState<AgentActivity>: "idle" | "thinking" | "tool"
  chatMessages,     \* useState<ChatMessage[]>
  chatSessionRef,   \* useRef<Chat | null>: TRUE when a session object is held
  abortStreamRef,   \* useRef(false)
  frame,            \* one sendMessage call each: where it is suspended, its locals
  hist,             \* one sendMessage call each: what it has done so far
  yielded           \* what the agent service has streamed so far: [chunks, calls]

agentVars == <<agentActivity, chatMessages, chatSessionRef, abortStreamRef, frame, hist,
               yielded>>

VARIABLES
  \* store.tsx and the files behind the tree
  rootNode,         \* useState<FileNode | null>: the loaded tree
  disk,             \* what readFileContent finds for each file of the tree
  \* ExportModal.tsx
  status,           \* useState: "idle" | "scanning" | "ready"
  progress,         \* useState(0)
  scannedFiles,     \* useState(0)
  totalFiles,       \* useState(0)
  contextContent,   \* useState<string>('')
  stats,            \* useState({ size, tokens, count })
  hasBundle,        \* useState(false)
  activeStep,       \* useState: "scan" | "share"
  abortRef,         \* useRef<boolean>(false)
  run               \* one scanProject call each: where it is suspended, its locals

bundleVars == <<rootNode, disk, status, progress, scannedFiles, totalFiles,
                contextContent, stats, hasBundle, activeStep, abortRef, run>>

bundleRest == <<disk, status, progress, scannedFiles, totalFiles, contextContent, stats,
                hasBundle, activeStep, abortRef, run>>

VARIABLES
  \* store.tsx, AppProvider
  selectedPaths,     \* useState<Set<string>>
  loadedFiles,       \* useState<Map<string, string>>
  recentRepos,       \* useState<string[]>
  projectMetadata,   \* useState<ProjectMetadata | null>: [type, url]
  isProcessing,      \* useState(false)
  rootNodeRef,       \* useRef(rootNode)
  selectedPathsRef,  \* useRef(selectedPaths)
  load,              \* the importGithubProject / refreshProject call in flight
  tools              \* the tool loop of a model turn: its position, its locals

storeVars == <<selectedPaths, loadedFiles, recentRepos, projectMetadata, isProcessing,
               rootNodeRef, selectedPathsRef, load, tools>>

agentRest == <<chatMessages, chatSessionRef, abortStreamRef, frame, hist, yielded>>

\* a project on offer and the tree each construction made of it
VARIABLES project, native, flat, remote
\* what the first two passes of scanProject made of one of the trees
VARIABLES scanned
loaderVars == <<project, native, flat, remote, scanned>>

\* the arguments a function is called with, and what it returned
VARIABLES input, output
pureVars == <<input, output>>

\* the calls of importGithubProject awaiting loadGithubRepo, by url, and the calls of
\* toggleFileSelection awaiting readFileContent, each with the node's path, the tree the
\* node is of and the set the call will store
VARIABLES imports, toggles
callVars == <<imports, toggles>>

vars == <<agentVars, bundleVars, storeVars, loaderVars, pureVars, callVars>>

\* ---------------------------------------------------------- chat records
\* the record's toolCalls field is kept as "some calls were recorded"
UserMsg == [role |-> "user", text |-> <<>>, isError |-> FALSE, toolCalls |-> FALSE]
ModelMsg == [role |-> "model", text |-> <<>>, isError |-> FALSE, toolCalls |-> FALSE]
ErrorMsg == [role |-> "model", text |-> <<-1>>, isError |-> TRUE, toolCalls |-> FALSE]
\* {...prev[prev.length - 1]} of an empty array: an object with no field set
NoMsg == [role |-> "none", text |-> <<>>, isError |-> FALSE, toolCalls |-> FALSE]

TextInput == [kind |-> "text", parts |-> <<>>]
PartsInput(rs) == [kind |-> "parts", parts |-> rs]
NoResult == [name |-> "none", response |-> "none"]

\* prev => prev[prev.length - 1]?.role === 'model' ? prev : [...prev, placeholder]
AddPlaceholder(prev) ==
  IF Len(prev) > 0 /\ Last(prev).role = "model" THEN prev ELSE Append(prev, ModelMsg)

LastCopy(prev) == IF Len(prev) = 0 THEN NoMsg ELSE Last(prev)
SliceOffLast(prev) == IF Len(prev) = 0 THEN <<>> ELSE Front(prev)

\* prev => { last = {...prev[prev.length - 1]}; last.text = fullText; [...prev.slice(0, -1), last] }
SetLastText(prev, t) ==
  Append(SliceOffLast(prev), [LastCopy(prev) EXCEPT !.text = t])

\* prev => { last = {...prev[prev.length - 1]}; last.toolCalls = toolCalls; ... }
SetLastToolCalls(prev, cs) ==
  Append(SliceOffLast(prev), [LastCopy(prev) EXCEPT !.toolCalls = (cs # <<>>)])

\* pc: "idle" (not called yet), "awaitStream" (await sendMessageStream), "streaming"
\* (for await), "toolWait" (await readFileContent inside executeTool), "toolReturn"
\* (await executeTool), "done" (returned), "escaped" (rejected)
\* input: the argument of the pending processTurn;
\* fullText, toolCalls, responses: the locals of processTurn; toolResult: what
\* executeTool returns. A local that is not read again holds its initial value.
NoFrame ==
  [pc |-> "idle", input |-> TextInput, fullText |-> <<>>,
   toolCalls |-> <<>>, responses |-> <<>>, toolResult |-> NoResult]

\* turns: processTurn calls made; execLog: the calls executeTool was entered with in
\* the current turn; appended: model-turn records the call appended; sessionError: an
\* error was raised while establishing or using the session; errorShown: error-flagged
\* records the call appended
NoHist ==
  [turns |-> 0, execLog |-> <<>>, appended |-> 0, sessionError |-> FALSE, errorShown |-> 0]

InFlight(i) == frame[i].pc \in {"awaitStream", "streaming", "toolWait", "toolReturn"}

\* ------------------------------------------------------------------ Init
AgentInit ==
  /\ agentActivity = "idle"
  /\ chatMessages = <<>>
  /\ chatSessionRef = FALSE
  /\ abortStreamRef = FALSE
  /\ frame = [i \in Sends |-> NoFrame]
  /\ hist = [i \in Sends |-> NoHist]
  /\ yielded = [chunks |-> 0, calls |-> 0]

\* ------------------------------------------------------------ the project
\* A project folder "r" holding files named by one digit each, "1", "2", ...: the
\* children of a directory as sortNodes leaves them. sysIgnored is isSystemIgnored(node.name):
\* openDirectory, processFileList and loadGithubRepo put no node with an ignored
\* name into a tree, the root apart, whose name none of them tests.
FileName(k) == <<k>>
FileNode(k) ==
  [id |-> k, name |-> FileName(k), kind |-> "file", path |-> <<"r", "/">> \o FileName(k),
   sysIgnored |-> FALSE]
RootNode(n, ignored) ==
  [name |-> <<"r">>, kind |-> "directory", path |-> <<"r">>, sysIgnored |-> ignored,
   children |-> [k \in 1..n |-> FileNode(k)]]

\* file contents: text, the empty file, a file with a null byte; a file that cannot
\* be read
Text == [readable |-> TRUE, content |-> <<"x">>]
EmptyFile == [readable |-> TRUE, content |-> <<>>]
Binary == [readable |-> TRUE, content |-> <<"x", "NUL">>]
Unreadable == [readable |-> FALSE, content |-> <<>>]
BadFiles == {EmptyFile, Binary, Unreadable}

Disks(n) ==
  {d \in [1..n -> {Text} \cup BadFiles] : Cardinality({k \in 1..n : d[k] # Text}) <= MaxBad}

\* contextContent: '' or the finished artifact
NoContent == [project |-> <<>>, files |-> <<>>, closed |-> FALSE]

\* pc: "idle" (not called yet), "reading" (await Promise.all), "yield" (await
\* setTimeout), "done" (returned after the loop), "cancelled" (returned in the loop)
\* candidates, output, processed, totalSize, i: the locals of scanProject
\* aborted: cancelScan was called while the call was running
NoRun ==
  [pc |-> "idle", candidates |-> <<>>, i |-> 0, output |-> NoContent, processed |-> 0,
   totalSize |-> 0, aborted |-> FALSE]

ModalInit ==
  /\ status = "idle"
  /\ progress = 0
  /\ scannedFiles = 0
  /\ totalFiles = 0
  /\ contextContent = NoContent
  /\ stats = [size |-> 0, tokens |-> 0, count |-> 0]
  /\ hasBundle = FALSE
  /\ activeStep = "scan"
  /\ abortRef = FALSE
  /\ run = [r \in Scans |-> NoRun]

\* the export modal is open on a loaded project
BundleInit ==
  /\ \E n \in 0..NumFiles, ignored \in BOOLEAN :
       /\ rootNode = RootNode(n, ignored)
       /\ disk \in Disks(n)
  /\ ModalInit

\* the export modal is left alone
NoBundle ==
  /\ rootNode = RootNode(0, FALSE)
  /\ disk = <<>>
  /\ ModalInit

\* ------------------------------------------------------------- the store
\* rootNode null
NullNode == [kind |-> "null"]
\* new Map()
EmptyMap == [p \in {} |-> NullNode]
\* projectMetadata null
NoMetadata == [type |-> "none", url |-> "none"]

\* pc of load: "idle", "import" (await loadGithubRepo in importGithubProject),
\* "refresh" (the same await in refreshProject); url: the argument of loadGithubRepo
\* settled: how the last loadGithubRepo of importGithubProject / refreshProject ended
NoLoad == [pc |-> "idle", url |-> "none", op |-> "none", settled |-> "none"]

\* pc of tools: "idle" (no turn), "loop" (between two calls of the for loop),
\* "reading" (await readFileContent in read_file); calls: the requests not run yet;
\* node: the node read_file is reading; last: the call run last, with its result
NoCall == [name |-> "none", path |-> <<>>, paths |-> {}, response |-> [kind |-> "none"]]
NoTools == [pc |-> "idle", calls |-> <<>>, node |-> NullNode, last |-> NoCall]

StoreInit ==
  /\ selectedPaths = {}
  /\ loadedFiles = EmptyMap
  /\ recentRepos = <<>>
  /\ projectMetadata = NoMetadata
  /\ isProcessing = FALSE
  /\ rootNodeRef = NullNode
  /\ selectedPathsRef = {}
  /\ load = NoLoad
  /\ tools = NoTools
  /\ imports = EmptyBag
  /\ toggles = EmptyBag

\* no project is on offer, no construction has run
NotLoaded == [kind |-> "notLoaded"]
NoProject == [root |-> "none", files |-> {}]
NoLoaders ==
  /\ project = NoProject
  /\ native = NotLoaded
  /\ flat = NotLoaded
  /\ remote = NotLoaded
  /\ scanned = NotLoaded

\* no function is being called
NotApplied == [kind |-> "notApplied"]
NoInput ==
  /\ input = [fn |-> "none"]
  /\ output = NotApplied

Init == AgentInit /\ NoBundle /\ StoreInit /\ NoLoaders /\ NoInput

\* --------------------------------------------------- sendMessage: endings
\* catch (e) { setChatMessages(prev => [...prev, {..., isError: true}]) } finally { idle }
Catch(i, msgs, fromSession) ==
  /\ chatMessages' = Append(msgs, ErrorMsg)
  /\ agentActivity' = "idle"
  /\ frame' = [frame EXCEPT ![i] = [NoFrame EXCEPT !.pc = "done"]]
  /\ hist' = [hist EXCEPT ![i].sessionError = @ \/ fromSession,
                          ![i].errorShown = @ + 1,
                          ![i].execLog = <<>>]

\* processTurn returns through every frame; finally { setAgentActivity({ type: 'idle' }) }
Finish(i) ==
  /\ agentActivity' = "idle"
  /\ frame' = [frame EXCEPT ![i] = [NoFrame EXCEPT !.pc = "done"]]
  /\ hist' = [hist EXCEPT ![i].execLog = <<>>]
  /\ UNCHANGED chatMessages

\* -------------------------------------------------------------- executeTool
\* what the synchronous part of executeTool can do with a call
SyncOutcomes(call) ==
  IF call.name = "read_file"
    THEN {"await", "notfound"}      \* findNodeByPath found a node, or did not
    ELSE {"ok", "throw"}            \* args.paths.forEach on a well-formed or missing args.paths

\* try { ... } catch (e) { result = { error: e.message } }
ToolErrorNotCaught == FALSE
ToolErrorCaught == TRUE

\* for (const call of toolCalls): the call the loop runs after rs results
NextCallLast(cs, rs) == cs[Len(cs) - Len(rs)]
NextCall(cs, rs) == cs[Len(rs) + 1]

\* the for loop has run every call
LoopDone(cs, rs) == Len(rs) = Len(cs)

\* executeTool(call) up to its first await or its return; f is the caller's frame
BeginTool(i, f, call, o, msgs) ==
  /\ o \in SyncOutcomes(call)
  /\ IF o = "await"
       THEN \* setAgentActivity({ type: 'tool' }); await readFileContent(node)
            /\ agentActivity' = "tool"
            /\ frame' = [frame EXCEPT ![i] = [f EXCEPT !.pc = "toolWait"]]
            /\ hist' = [hist EXCEPT ![i].execLog = Append(@, call)]
            /\ chatMessages' = msgs
       ELSE IF o = "throw" /\ ~ToolErrorCaught
       THEN Catch(i, msgs, FALSE)
       ELSE \* ... setAgentActivity({ type: 'thinking' }); return { name, response: result }
            /\ agentActivity' = "thinking"
            /\ frame' = [frame EXCEPT ![i] =
                 [f EXCEPT !.pc = "toolReturn",
                           !.toolResult =
                              [name |-> call.name,
                               response |-> CASE o = "notfound" -> "notfound"
                                              [] o = "throw" -> "error"
                                              [] OTHER -> "ok"]]]
            /\ hist' = [hist EXCEPT ![i].execLog = Append(@, call)]
            /\ chatMessages' = msgs

\* ------------------------------------------------------------- sendMessage
\* handleSubmit: agentActivity.type !== 'idle' returns; then sendMessage(t) up to
\* await chatSessionRef.current.sendMessageStream(...); startAgent when no session
SendMessage(i, startThrows) ==
  /\ UNCHANGED <<yielded, bundleVars, storeVars, loaderVars, pureVars, callVars>>
  /\ frame[i].pc = "idle"
  /\ \A j \in Sends : j < i => frame[j].pc # "idle"
  /\ agentActivity = "idle"
  /\ IF ~chatSessionRef /\ startThrows
       THEN \* new GoogleGenAI / ai.chats.create throws: outside the try of sendMessage
            /\ frame' = [frame EXCEPT ![i].pc = "escaped"]
            /\ hist' = [hist EXCEPT ![i].sessionError = TRUE]
            /\ UNCHANGED <<agentActivity, chatMessages, chatSessionRef, abortStreamRef>>
       ELSE /\ chatSessionRef' = TRUE
            /\ chatMessages' = Append(IF chatSessionRef THEN chatMessages ELSE <<>>, UserMsg)
            /\ agentActivity' = "thinking"
            /\ abortStreamRef' = FALSE
            /\ frame' = [frame EXCEPT ![i].pc = "awaitStream", ![i].input = TextInput]
            /\ hist' = [hist EXCEPT ![i].turns = 1]

\* await sendMessageStream resolves: the locals of the frame, the placeholder record
StreamOpened(i) ==
  /\ UNCHANGED <<yielded, bundleVars, storeVars, loaderVars, pureVars, callVars>>
  /\ frame[i].pc = "awaitStream"
  /\ frame' = [frame EXCEPT ![i] = [NoFrame EXCEPT !.pc = "streaming"]]
  /\ chatMessages' = AddPlaceholder(chatMessages)
  /\ hist' = [hist EXCEPT ![i].appended = @ + (Len(chatMessages') - Len(chatMessages)),
                          ![i].execLog = <<>>]
  /\ UNCHANGED <<agentActivity, chatSessionRef, abortStreamRef>>

\* await sendMessageStream rejects
StreamRejected(i) ==
  /\ UNCHANGED <<yielded, bundleVars, storeVars, loaderVars, pureVars, callVars>>
  /\ frame[i].pc = "awaitStream"
  /\ Catch(i, chatMessages, TRUE)
  /\ UNCHANGED <<chatSessionRef, abortStreamRef>>

\* what follows the for await loop: return when no tool was requested, else record
\* the requests on the last record and enter executeTool with the first of them
AfterStream(i, o) ==
  IF frame[i].toolCalls = <<>>
    THEN Finish(i)
    ELSE BeginTool(i, [frame[i] EXCEPT !.fullText = <<>>],
                   NextCall(frame[i].toolCalls, <<>>), o,
                   SetLastToolCalls(chatMessages, frame[i].toolCalls))

\* chunk.text: absent (0), or a piece of text; the text a turn streams is told
\* apart from the text of the turns before it
ChunkTexts(i) == {0, hist[i].turns}
AllChunkTexts == 0..MaxTurns

\* the stream yields a chunk while the abort flag is unset
StreamChunk(i, text, calls) ==
  /\ frame[i].pc = "streaming"
  /\ ~abortStreamRef
  /\ text \in ChunkTexts(i)
  /\ text # 0 \/ calls # <<>>
  /\ calls # <<>> => hist[i].turns < MaxTurns
  /\ yielded.chunks < MaxChunks
  /\ yielded.calls + Len(calls) <= MaxCalls
  /\ yielded' = [chunks |-> yielded.chunks + 1, calls |-> yielded.calls + Len(calls)]
  /\ frame' = [frame EXCEPT ![i].fullText = IF text # 0 THEN Append(@, text) ELSE @,
                            ![i].toolCalls = @ \o calls]
  /\ chatMessages' = IF text # 0 THEN SetLastText(chatMessages, frame'[i].fullText)
                                       ELSE chatMessages
  /\ UNCHANGED <<agentActivity, chatSessionRef, abortStreamRef, hist, bundleVars, storeVars,
                 loaderVars, pureVars, callVars>>

\* the stream yields a chunk while the abort flag is set: break
StreamBreak(i, o) ==
  /\ UNCHANGED <<yielded, bundleVars, storeVars, loaderVars, pureVars, callVars>>
  /\ frame[i].pc = "streaming"
  /\ abortStreamRef
  /\ AfterStream(i, o)
  /\ UNCHANGED <<chatSessionRef, abortStreamRef>>

\* the stream ends
StreamEnd(i, o) ==
  /\ UNCHANGED <<yielded, bundleVars, storeVars, loaderVars, pureVars, callVars>>
  /\ frame[i].pc = "streaming"
  /\ AfterStream(i, o)
  /\ UNCHANGED <<chatSessionRef, abortStreamRef>>

\* iterating the stream throws
StreamThrows(i) ==
  /\ UNCHANGED <<yielded, bundleVars, storeVars, loaderVars, pureVars, callVars>>
  /\ frame[i].pc = "streaming"
  /\ Catch(i, chatMessages, TRUE)
  /\ UNCHANGED <<chatSessionRef, abortStreamRef>>

\* read_file: await readFileContent(node) settles; the rest of executeTool
ToolSettled(i, ok) ==
  /\ UNCHANGED <<yielded, bundleVars, storeVars, loaderVars, pureVars, callVars>>
  /\ frame[i].pc = "toolWait"
  /\ IF ~ok /\ ~ToolErrorCaught
       THEN Catch(i, chatMessages, FALSE)
       ELSE /\ agentActivity' = "thinking"
            /\ frame' = [frame EXCEPT ![i].pc = "toolReturn",
                                      ![i].toolResult =
                                         [name |-> Last(hist[i].execLog).name,
                                          response |-> IF ok THEN "content" ELSE "error"]]
            /\ UNCHANGED <<chatMessages, hist>>
  /\ UNCHANGED <<chatSessionRef, abortStreamRef>>

\* await executeTool(call) resumes: responses.push, then the next call of the loop
\* or, after the loop, await processTurn(responses)
ToolResumed(i, o) ==
  /\ UNCHANGED <<yielded, bundleVars, storeVars, loaderVars, pureVars, callVars>>
  /\ frame[i].pc = "toolReturn"
  /\ LET rs == Append(frame[i].responses, frame[i].toolResult)
         f == [frame[i] EXCEPT !.responses = rs, !.toolResult = NoResult]
     IN IF ~LoopDone(f.toolCalls, rs)
          THEN BeginTool(i, f, NextCall(f.toolCalls, rs), o, chatMessages)
          ELSE IF chatSessionRef
          THEN \* chatSessionRef.current.sendMessageStream({ message: responses })
               /\ frame' = [frame EXCEPT ![i] = [f EXCEPT !.pc = "awaitStream",
                                                           !.input = PartsInput(rs)]]
               /\ hist' = [hist EXCEPT ![i].turns = @ + 1]
               /\ UNCHANGED <<agentActivity, chatMessages>>
          ELSE \* chatSessionRef.current is null: a TypeError inside the try
               Catch(i, chatMessages, TRUE)
  /\ UNCHANGED <<chatSessionRef, abortStreamRef>>

\* --------------------------------------------------------------- stopAgent
\* the stop button is rendered while agentActivity.type !== 'idle'
StopAgent ==
  /\ agentActivity # "idle"
  /\ abortStreamRef' = TRUE
  /\ agentActivity' = "idle"
  /\ UNCHANGED <<chatMessages, chatSessionRef, frame, hist, yielded, bundleVars, storeVars,
                 loaderVars, pureVars, callVars>>

\* -------------------------------------------------------------- scanProject
\* traverse(node): a node with an ignored name is left with all below it; the rule
\* list of .gitignore is empty, no tree holding a node of that name
RECURSIVE traverse(_), TraverseEach(_)
traverse(node) ==
  IF node.sysIgnored THEN <<>>
  ELSE IF node.kind = "file" THEN <<node>>
  ELSE TraverseEach(node.children)
\* node.children.forEach(traverse)
TraverseEach(nodes) ==
  IF nodes = <<>> THEN <<>> ELSE traverse(Head(nodes)) \o TraverseEach(Tail(nodes))

\* '' as a result of a read
NoRecord == [path |-> <<>>, content |-> <<>>]

\* a read whose result is tested for nothing but failure
FileResultUntested(file) ==
  IF ~disk[file.id].readable THEN NoRecord
  ELSE [path |-> file.path, content |-> disk[file.id].content]

\* chunk.map(async (file) => ...): '' for a file that cannot be read, is empty or
\* holds a null byte, else the <file> record
FileResult(file) ==
  LET found == disk[file.id]
  IN IF ~found.readable THEN NoRecord
     ELSE IF found.content = <<>> \/ \E k \in 1..Len(found.content) : found.content[k] = "NUL"
     THEN NoRecord
     ELSE [path |-> file.path, content |-> found.content]

\* res.length of a <file> record
ResLength(res) == RecordOverhead + Len(res.path) + Len(res.content)

\* candidates.slice(i, i + CHUNK_SIZE)
Slice(cands, i) ==
  SubSeq(cands, i + 1, IF i + CHUNK_SIZE < Len(cands) THEN i + CHUNK_SIZE ELSE Len(cands))

\* the orders the reads of a batch of n files can settle in
SettleOrders(n) == Permutations(1..n)

\* await Promise.all(promises): the results by position, whatever the order the
\* reads settled in
AsSettled(promised, order) == [k \in 1..Len(promised) |-> promised[order[k]]]
PromiseAll(promised, order) == promised

\* results.forEach(res => { if (res) { output += res; totalSize += res.length } })
RECURSIVE Emitted(_)
Emitted(results) ==
  IF results = <<>> THEN <<>>
  ELSE IF Head(results) # NoRecord THEN <<Head(results)>> \o Emitted(Tail(results))
  ELSE Emitted(Tail(results))

RECURSIVE SumLength(_)
SumLength(records) ==
  IF records = <<>> THEN 0 ELSE ResLength(Head(records)) + SumLength(Tail(records))

\* Math.round of a / b, of a * TOKENS_PER_CHAR
RoundDiv(a, b) == (2 * a + b) \div (2 * b)
\* Math.floor of size * TOKENS_PER_CHAR
FloorTokens(size) == size \div 4
Tokens(size) == RoundDiv(size, 4)

\* the loop of scanProject from the test of an iteration to its await, or past the
\* loop to the end; q holds the locals, m the state the call has set so far, abort
\* the flag
LoopTop(r, q, m, abort) ==
  IF q.i < Len(q.candidates)
    THEN IF abort
      THEN \* setStatus('idle'); setProgress(0); setScannedFiles(0); return
           /\ status' = "idle"
           /\ progress' = 0
           /\ scannedFiles' = 0
           /\ contextContent' = m.contextContent
           /\ hasBundle' = m.hasBundle
           /\ run' = [run EXCEPT ![r] = [NoRun EXCEPT !.pc = "cancelled",
                                                      !.aborted = q.aborted]]
           /\ UNCHANGED <<stats, activeStep>>
      ELSE \* const results = await Promise.all(promises)
           /\ status' = m.status
           /\ progress' = m.progress
           /\ scannedFiles' = m.scannedFiles
           /\ contextContent' = m.contextContent
           /\ hasBundle' = m.hasBundle
           /\ run' = [run EXCEPT ![r] = [q EXCEPT !.pc = "reading"]]
           /\ UNCHANGED <<stats, activeStep>>
    ELSE \* output += `</project>`; setContextContent(output); setStats(...); ...
         /\ progress' = m.progress
         /\ scannedFiles' = m.scannedFiles
         /\ contextContent' = [q.output EXCEPT !.closed = TRUE]
         /\ stats' = [size |-> q.totalSize, tokens |-> Tokens(q.totalSize),
                      count |-> q.processed]
         /\ status' = "ready"
         /\ activeStep' = "share"
         /\ hasBundle' = TRUE
         /\ run' = [run EXCEPT ![r] = [NoRun EXCEPT !.pc = "done",
                                                    !.candidates = q.candidates,
                                                    !.aborted = q.aborted]]

\* the Rescan button of the scan step: scanProject up to its first await
ScanProject(r) ==
  /\ run[r].pc = "idle"
  /\ \A j \in Scans : j < r => run[j].pc # "idle"
  /\ activeStep = "scan"
  /\ abortRef' = FALSE
  /\ totalFiles' = Len(traverse(rootNode))
  /\ LoopTop(r,
             [NoRun EXCEPT !.candidates = traverse(rootNode),
                           !.output = [project |-> rootNode.name, files |-> <<>>,
                                       closed |-> FALSE]],
             [status |-> "scanning", progress |-> 0, scannedFiles |-> 0,
              contextContent |-> NoContent, hasBundle |-> FALSE],
             FALSE)
  /\ UNCHANGED <<rootNode, disk, agentVars, storeVars, loaderVars, pureVars, callVars>>

\* the reads of a batch have all settled, in some order: the rest of the iteration
BatchRead(r) ==
  /\ run[r].pc = "reading"
  /\ LET q == run[r]
         chunk == Slice(q.candidates, q.i)
         promised == [k \in 1..Len(chunk) |-> FileResult(chunk[k])]
     IN \E results \in {PromiseAll(promised, order) : order \in SettleOrders(Len(chunk))} :
           LET n == q.processed + Len(chunk)
           IN /\ run' = [run EXCEPT ![r] =
                    [q EXCEPT !.pc = "yield",
                              !.output.files = @ \o Emitted(results),
                              !.totalSize = @ + SumLength(Emitted(results)),
                              !.processed = n]]
              /\ scannedFiles' = IF n < Len(q.candidates) THEN n ELSE Len(q.candidates)
              /\ progress' = RoundDiv(n * 100, Len(q.candidates))
  /\ UNCHANGED <<rootNode, disk, status, totalFiles, contextContent, stats, hasBundle,
                 activeStep, abortRef, agentVars, storeVars, loaderVars, pureVars, callVars>>

\* await setTimeout resumes: i += CHUNK_SIZE, the next iteration or the end
BatchYielded(r) ==
  /\ run[r].pc = "yield"
  /\ LoopTop(r,
             [run[r] EXCEPT !.i = @ + CHUNK_SIZE],
             [status |-> status, progress |-> progress, scannedFiles |-> scannedFiles,
              contextContent |-> contextContent, hasBundle |-> hasBundle],
             abortRef)
  /\ UNCHANGED <<rootNode, disk, totalFiles, abortRef, agentVars, storeVars, loaderVars, pureVars,
                 callVars>>

\* the Scan step button: setActiveStep('scan')
StepScan ==
  /\ activeStep # "scan"
  /\ activeStep' = "scan"
  /\ UNCHANGED <<rootNode, disk, status, progress, scannedFiles, totalFiles,
                 contextContent, stats, hasBundle, abortRef, run, agentVars, storeVars,
                 loaderVars, pureVars, callVars>>

\* cancelScan, taken while a scan runs
CancelScan ==
  /\ \E r \in Scans : run[r].pc \in {"reading", "yield"}
  /\ abortRef' = TRUE
  /\ run' = [r \in Scans |-> IF run[r].pc \in {"reading", "yield"}
                               THEN [run[r] EXCEPT !.aborted = TRUE] ELSE run[r]]
  /\ UNCHANGED <<rootNode, disk, status, progress, scannedFiles, totalFiles,
                 contextContent, stats, hasBundle, activeStep, agentVars, storeVars,
                 loaderVars, pureVars, callVars>>

\* ----------------------------------------------------------- specification
Outcomes == {"await", "notfound", "ok", "throw"}
Calls == [name : ToolNames]
ChunkCalls == SeqsUpTo(Calls, MaxCalls)

Next ==
  \/ \E i \in Sends, b \in BOOLEAN : SendMessage(i, b)
  \/ \E i \in Sends : StreamOpened(i)
  \/ \E i \in Sends : StreamRejected(i)
  \/ \E i \in Sends, t \in AllChunkTexts, cs \in ChunkCalls : StreamChunk(i, t, cs)
  \/ \E i \in Sends, o \in Outcomes : StreamBreak(i, o)
  \/ \E i \in Sends, o \in Outcomes : StreamEnd(i, o)
  \/ \E i \in Sends : StreamThrows(i)
  \/ \E i \in Sends, ok \in BOOLEAN : ToolSettled(i, ok)
  \/ \E i \in Sends, o \in Outcomes : ToolResumed(i, o)
  \/ StopAgent

Spec == Init /\ [][Next]_vars

NextBundle ==
  \/ \E r \in Scans : ScanProject(r)
  \/ \E r \in Scans : BatchRead(r)
  \/ \E r \in Scans : BatchYielded(r)
  \/ CancelScan
  \/ StepScan

InitBundle == AgentInit /\ BundleInit /\ StoreInit /\ NoLoaders /\ NoInput

SpecBundle == InitBundle /\ [][NextBundle]_vars

\* =============================================================== the store
\* ------------------------------------------------------------- pure helpers
\* findNodeByPath(node, path): the first node in depth-first order with that path
RECURSIVE findNodeByPath(_, _), FindInChildren(_, _)
findNodeByPath(node, path) ==
  IF node.path = path THEN node
  ELSE IF node.kind = "directory" THEN FindInChildren(node.children, path)
  ELSE NullNode
\* for (const child of node.children) { found = findNodeByPath(child, path); ... }
FindInChildren(nodes, path) ==
  IF nodes = <<>> THEN NullNode
  ELSE IF findNodeByPath(Head(nodes), path) # NullNode
  THEN findNodeByPath(Head(nodes), path)
  ELSE FindInChildren(Tail(nodes), path)

\* getAllFilePaths(node): [] for null, else the paths of the file nodes, depth first
RECURSIVE FilePathsOf(_), FilePathsOfEach(_)
FilePathsOf(n) ==
  (IF n.kind = "file" THEN <<n.path>> ELSE <<>>)
    \o (IF n.kind = "directory" THEN FilePathsOfEach(n.children) ELSE <<>>)
FilePathsOfEach(nodes) ==
  IF nodes = <<>> THEN <<>> ELSE FilePathsOf(Head(nodes)) \o FilePathsOfEach(Tail(nodes))
getAllFilePaths(node) == IF node = NullNode THEN <<>> ELSE FilePathsOf(node)

\* new Map(prev).set(key, value)
MapSet(prev, key, value) ==
  [p \in DOMAIN prev \cup {key} |-> IF p = key THEN value ELSE prev[p]]

\* a text is kept as which text it is and how many characters of it there are
Contents == [text : {"t"}, len : {SliceLimit, SliceLimit + 1}]
\* content.slice(0, n)
SliceTo(content, n) == [content EXCEPT !.len = IF @ < n THEN @ ELSE n]

\* [url, ...prev].slice(0, 5)
addRecentRepoUnfiltered(prev, url) ==
  LET next == <<url>> \o prev
  IN SubSeq(next, 1, IF Len(next) < RecentLimit THEN Len(next) ELSE RecentLimit)
\* [url, ...prev.filter(u => u !== url)].slice(0, 5)
addRecentRepo(prev, url) ==
  LET next == <<url>> \o SelectSeq(prev, LAMBDA u : u # url)
  IN SubSeq(next, 1, IF Len(next) < RecentLimit THEN Len(next) ELSE RecentLimit)

\* loadGithubRepo: raises when the repository or the manifest fetch fails, else the
\* tree built from the manifest (n files)
Raised == [kind |-> "raised"]
LoadOutcomes == {"metadataFails", "manifestFails", "ok"}
loadGithubRepoPartial(outcome, n) ==
  IF outcome = "metadataFails" THEN Raised
  ELSE IF outcome = "manifestFails" THEN RootNode(0, FALSE)
  ELSE RootNode(n, FALSE)
loadGithubRepo(outcome, n) == IF outcome # "ok" THEN Raised ELSE RootNode(n, FALSE)

StorePaths == {FileNode(k).path : k \in 1..MaxPaths}
Urls == {"u"}

\* --------------------------------------------------------- the tool loop
\* a model turn has requested tools: sendMessage up to the for loop over toolCalls
ToolLoopStart ==
  /\ tools.pc = "idle"
  /\ agentActivity = "idle"
  /\ agentActivity' = "thinking"
  /\ tools' = [NoTools EXCEPT !.pc = "loop", !.calls = MaxToolCalls]
  /\ UNCHANGED <<selectedPaths, loadedFiles, recentRepos, projectMetadata, isProcessing,
                 rootNodeRef, selectedPathsRef, load, rootNode, agentRest, bundleRest,
                 loaderVars, pureVars, callVars>>

\* the tool has returned: setAgentActivity({ type: 'thinking' }); return { name, response }
Returned(call, response) ==
  /\ agentActivity' = "thinking"
  /\ tools' = [tools EXCEPT !.pc = "loop", !.calls = @ - 1, !.node = NullNode,
                            !.last = [call EXCEPT !.response = response]]

\* the selection the refresh leaves
ClearedSelection(sel) == {}
SelectionAfterRefresh(sel) == sel

\* the set select_files and deselect_files start from
ToolSelection == selectedPathsRef

\* executeTool(call) up to its first await or its return
ExecuteTool(call) ==
  /\ tools.pc = "loop"
  /\ tools.calls > 0
  /\ CASE call.name = "list_files" ->
            /\ Returned(call, [kind |-> "files", files |-> getAllFilePaths(rootNodeRef)])
            /\ UNCHANGED selectedPaths
       [] call.name = "read_file" ->
            /\ UNCHANGED selectedPaths
            /\ IF rootNodeRef = NullNode
                 THEN \* node.path of null: a TypeError, caught: { error: e.message }
                      Returned(call, [kind |-> "error"])
                 ELSE IF findNodeByPath(rootNodeRef, call.path) = NullNode
                 THEN Returned(call, [kind |-> "notFound"])
                 ELSE \* await readFileContent(node)
                      /\ agentActivity' = "tool"
                      /\ tools' = [tools EXCEPT !.pc = "reading",
                                                !.node = findNodeByPath(rootNodeRef, call.path),
                                                !.last = call]
       [] call.name = "select_files" ->
            /\ selectedPaths' = ToolSelection \cup call.paths
            /\ Returned(call, [kind |-> "count", count |-> Cardinality(selectedPaths')])
       [] call.name = "deselect_files" ->
            /\ selectedPaths' = ToolSelection \ call.paths
            /\ Returned(call, [kind |-> "ok"])
  /\ UNCHANGED <<loadedFiles, recentRepos, projectMetadata, isProcessing, rootNodeRef,
                 selectedPathsRef, load, rootNode, agentRest, bundleRest, loaderVars, pureVars,
                 callVars>>

\* await readFileContent(node) settles: it rejects for a directory node
ReadFileSettled(ok, content) ==
  /\ tools.pc = "reading"
  /\ tools.node.kind = "directory" => ~ok
  /\ IF ok
       THEN /\ loadedFiles' = MapSet(loadedFiles, tools.node.path, content)
            /\ Returned(tools.last, [kind |-> "content",
                                     content |-> SliceTo(content, SliceLimit)])
       ELSE /\ Returned(tools.last, [kind |-> "error"])
            /\ UNCHANGED loadedFiles
  /\ UNCHANGED <<selectedPaths, recentRepos, projectMetadata, isProcessing, rootNodeRef,
                 selectedPathsRef, load, rootNode, agentRest, bundleRest, loaderVars, pureVars,
                 callVars>>

\* the loop is over, the turns that follow request no tool: sendMessage returns
ToolLoopEnd ==
  /\ tools.pc = "loop"
  /\ agentActivity' = "idle"
  /\ tools' = NoTools
  /\ UNCHANGED <<selectedPaths, loadedFiles, recentRepos, projectMetadata, isProcessing,
                 rootNodeRef, selectedPathsRef, load, rootNode, agentRest, bundleRest,
                 loaderVars, pureVars, callVars>>

\* React renders and runs the effects that copy the state into the refs
SyncRefs ==
  /\ rootNodeRef # rootNode \/ selectedPathsRef # selectedPaths
  /\ rootNodeRef' = rootNode
  /\ selectedPathsRef' = selectedPaths
  /\ UNCHANGED <<selectedPaths, loadedFiles, recentRepos, projectMetadata, isProcessing,
                 load, tools, rootNode, agentVars, bundleRest, loaderVars, pureVars, callVars>>

\* ------------------------------------------------------ project operations
\* handleOpenProject / handleFileInputChange: loadLocalProject(root)
LoadLocalProject(n) ==
  /\ rootNode' = RootNode(n, FALSE)
  /\ selectedPaths' = {}
  /\ loadedFiles' = EmptyMap
  /\ projectMetadata' = [type |-> "local", url |-> "none"]
  /\ UNCHANGED <<recentRepos, isProcessing, rootNodeRef, selectedPathsRef, load, tools,
                 agentVars, bundleRest, loaderVars, pureVars, callVars>>

CloseProject ==
  /\ rootNode # NullNode
  /\ rootNode' = NullNode
  /\ selectedPaths' = {}
  /\ loadedFiles' = EmptyMap
  /\ projectMetadata' = NoMetadata
  /\ UNCHANGED <<recentRepos, isProcessing, rootNodeRef, selectedPathsRef, load, tools,
                 agentVars, bundleRest, loaderVars, pureVars, callVars>>

ClearSelection ==
  /\ selectedPaths # {}
  /\ selectedPaths' = {}
  /\ UNCHANGED <<loadedFiles, recentRepos, projectMetadata, isProcessing, rootNodeRef,
                 selectedPathsRef, load, tools, rootNode, agentVars, bundleRest,
                 loaderVars, pureVars, callVars>>

\* the Import button (disabled while isProcessing): importGithubProject up to its await
ImportGithubProject(url) ==
  /\ ~isProcessing
  /\ load.pc = "idle"
  /\ isProcessing' = TRUE
  /\ load' = [NoLoad EXCEPT !.pc = "import", !.url = url]
  /\ UNCHANGED <<selectedPaths, loadedFiles, recentRepos, projectMetadata, rootNodeRef,
                 selectedPathsRef, tools, rootNode, agentVars, bundleRest, loaderVars, pureVars,
                 callVars>>

\* the Refresh button (shown for a github project, disabled while isProcessing):
\* refreshProject up to its await
RefreshProject ==
  /\ projectMetadata.type = "github"
  /\ ~isProcessing
  /\ load.pc = "idle"
  /\ isProcessing' = TRUE
  /\ load' = [NoLoad EXCEPT !.pc = "refresh", !.url = projectMetadata.url]
  /\ UNCHANGED <<selectedPaths, loadedFiles, recentRepos, projectMetadata, rootNodeRef,
                 selectedPathsRef, tools, rootNode, agentVars, bundleRest, loaderVars, pureVars,
                 callVars>>

\* await loadGithubRepo settles: the rest of importGithubProject or refreshProject
LoadSettled(outcome, n) ==
  /\ load.pc # "idle"
  /\ load' = [NoLoad EXCEPT !.op = load.pc,
                            !.settled = outcome]
  /\ isProcessing' = FALSE
  /\ IF loadGithubRepo(outcome, n) = Raised
       THEN UNCHANGED <<rootNode, selectedPaths, loadedFiles, recentRepos, projectMetadata>>
       ELSE IF load.pc = "import"
       THEN /\ rootNode' = loadGithubRepo(outcome, n)
            /\ selectedPaths' = {}
            /\ loadedFiles' = EmptyMap
            /\ recentRepos' = addRecentRepo(recentRepos, load.url)
            /\ projectMetadata' = [type |-> "github", url |-> load.url]
       ELSE /\ rootNode' = loadGithubRepo(outcome, n)
            /\ loadedFiles' = EmptyMap
            /\ selectedPaths' = SelectionAfterRefresh(selectedPaths)
            /\ UNCHANGED <<recentRepos, projectMetadata>>
  /\ UNCHANGED <<rootNodeRef, selectedPathsRef, tools, agentVars, bundleRest, loaderVars, pureVars,
                 callVars>>

ToolCalls ==
  {[NoCall EXCEPT !.name = "list_files"]}
    \cup {[NoCall EXCEPT !.name = "read_file", !.path = p] :
            p \in StorePaths \cup {RootNode(0, FALSE).path}}
    \cup {[NoCall EXCEPT !.name = nm, !.paths = ps] :
            nm \in {"select_files", "deselect_files"}, ps \in SUBSET StorePaths \ {{}}}

NextStore ==
  \/ ToolLoopStart
  \/ \E call \in ToolCalls : ExecuteTool(call)
  \/ \E ok \in BOOLEAN, content \in Contents : ReadFileSettled(ok, content)
  \/ ToolLoopEnd
  \/ SyncRefs
  \/ \E n \in 1..MaxPaths : LoadLocalProject(n)
  \/ CloseProject
  \/ ClearSelection
  \/ \E url \in Urls : ImportGithubProject(url)
  \/ RefreshProject
  \/ \E o \in LoadOutcomes, n \in 1..MaxPaths : LoadSettled(o, n)

\* no project is loaded, the export modal is left alone
InitStore ==
  /\ AgentInit
  /\ rootNode = NullNode
  /\ disk = <<>>
  /\ ModalInit
  /\ StoreInit
  /\ NoLoaders
  /\ NoInput

SpecStore == InitStore /\ [][NextStore]_vars

\* ================================================== the recent repositories
UrlNames == <<"u", "v", "w", "x", "y", "z", "t">>
RecentUrls == {UrlNames[k] : k \in 1..NumUrls}
\* recentRepos.map(repo => ...): url is one of the entries shown
Listed(url) == \E k \in 1..Len(recentRepos) : recentRepos[k] = url

\* prev.filter(u => u !== url)
removeRecentRepo(prev, url) == SelectSeq(prev, LAMBDA u : u # url)

\* importGithubProject(url) up to its await
ImportAwaits(url) ==
  /\ BagCardinality(imports) < MaxImports
  /\ isProcessing' = TRUE
  /\ imports' = imports (+) SetToBag({url})
  /\ UNCHANGED <<selectedPaths, loadedFiles, recentRepos, projectMetadata, rootNodeRef,
                 selectedPathsRef, load, tools, rootNode, agentVars, bundleRest, loaderVars,
                 pureVars, toggles>>

\* the Import button of the form, disabled while isProcessing
ImportFromForm(url) == ~isProcessing /\ ImportAwaits(url)

\* a click on an entry of the recent list of the landing page
ImportFromRecent(url) == Listed(url) /\ ImportAwaits(url)

\* await loadGithubRepo(url) settles: the rest of importGithubProject
ImportSettled(url, outcome) ==
  /\ BagIn(url, imports)
  /\ imports' = imports (-) SetToBag({url})
  /\ load' = [NoLoad EXCEPT !.op = "import", !.settled = outcome]
  /\ isProcessing' = FALSE
  /\ IF loadGithubRepo(outcome, MaxPaths) = Raised
       THEN UNCHANGED <<rootNode, selectedPaths, loadedFiles, recentRepos, projectMetadata>>
       ELSE /\ rootNode' = loadGithubRepo(outcome, MaxPaths)
            /\ selectedPaths' = {}
            /\ loadedFiles' = EmptyMap
            /\ recentRepos' = addRecentRepo(recentRepos, url)
            /\ projectMetadata' = [type |-> "github", url |-> url]
  /\ UNCHANGED <<rootNodeRef, selectedPathsRef, tools, agentVars, bundleRest, loaderVars,
                 pureVars, toggles>>

\* the x button of an entry of the recent list
RemoveRecentRepo(url) ==
  /\ Listed(url)
  /\ recentRepos' = removeRecentRepo(recentRepos, url)
  /\ UNCHANGED <<selectedPaths, loadedFiles, projectMetadata, isProcessing, rootNodeRef,
                 selectedPathsRef, load, tools, rootNode, agentVars, bundleRest, loaderVars,
                 pureVars, callVars>>

NextRecent ==
  \/ \E url \in RecentUrls : ImportFromForm(url)
  \/ \E url \in RecentUrls : ImportFromRecent(url)
  \/ \E url \in RecentUrls, o \in LoadOutcomes : ImportSettled(url, o)
  \/ \E url \in RecentUrls : RemoveRecentRepo(url)

SpecRecent == InitStore /\ [][NextRecent]_vars

\* ======================================================= toggleFileSelection
\* the file nodes the tree shows
ShownPaths ==
  IF rootNode = NullNode THEN {}
  ELSE {p \in StorePaths : findNodeByPath(rootNode, p) # NullNode}

\* toggleFileSelection(node) up to its await, or to its end when it does not await:
\* selectedPaths and loadedFiles are those of the render the callback was made in
ToggleFileSelection(path) ==
  /\ path \in ShownPaths
  /\ IF path \in selectedPaths
       THEN /\ selectedPaths' = selectedPaths \ {path}
            /\ UNCHANGED toggles
       ELSE IF path \in DOMAIN loadedFiles
       THEN /\ selectedPaths' = selectedPaths \cup {path}
            /\ UNCHANGED toggles
       ELSE \* await readFileContent(node)
            /\ BagCardinality(toggles) < MaxToggles
            /\ toggles' = toggles (+) SetToBag({[path |-> path, tree |-> rootNode,
                                                 newSet |-> selectedPaths \cup {path}]})
            /\ UNCHANGED selectedPaths
  /\ UNCHANGED <<loadedFiles, recentRepos, projectMetadata, isProcessing, rootNodeRef,
                 selectedPathsRef, load, tools, rootNode, agentVars, bundleRest, loaderVars,
                 pureVars, imports>>

\* await readFileContent(node) settles: the rest of toggleFileSelection
ToggleSettled(t, ok, content) ==
  /\ BagIn(t, toggles)
  /\ toggles' = toggles (-) SetToBag({t})
  /\ loadedFiles' = IF ok THEN MapSet(loadedFiles, t.path, content) ELSE loadedFiles
  /\ selectedPaths' = t.newSet
  /\ UNCHANGED <<recentRepos, projectMetadata, isProcessing, rootNodeRef, selectedPathsRef,
                 load, tools, rootNode, agentVars, bundleRest, loaderVars, pureVars, imports>>

\* the calls that can await: node.path, the tree of node, newSet
ToggleCalls ==
  [path : StorePaths, tree : {RootNode(n, FALSE) : n \in 1..MaxPaths},
   newSet : SUBSET StorePaths]

NextToggle ==
  \/ \E path \in StorePaths : ToggleFileSelection(path)
  \/ \E t \in ToggleCalls, ok \in BOOLEAN, content \in Contents :
        ToggleSettled(t, ok, content)
  \/ ClearSelection
  \/ CloseProject
  \/ \E n \in 1..MaxPaths : LoadLocalProject(n)

SpecToggle == InitStore /\ [][NextToggle]_vars

\* ================================================== the tree constructions
\* a name: whether it starts with a dot, its text up to the last dot that is not the
\* first character, and that dot with what follows it ("" when there is none)
Name(dot, stem, ext) == [dot |-> dot, stem |-> stem, ext |-> ext]
NameText(nm) == (IF nm.dot THEN "." ELSE "") \o nm.stem \o nm.ext

DirNames == {Name(FALSE, "src", ""), Name(FALSE, "utils", ""), Name(FALSE, "node_modules", "")}
FileNames == {Name(FALSE, "app", ".ts"), Name(FALSE, "main", ".ts"),
              Name(FALSE, "logo", ".png"), Name(TRUE, "env", ""),
              Name(TRUE, "gitignore", "")}
RootNames == {Name(FALSE, "Proj", ""), Name(FALSE, "build", "")}

\* the names in the order of String.prototype.localeCompare
NameOrder ==
  <<Name(TRUE, "env", ""), Name(TRUE, "gitignore", ""), Name(FALSE, "app", ".ts"),
    Name(FALSE, "app", ".tsx"), Name(FALSE, "build", ""), Name(FALSE, "helpers", ".ts"),
    Name(FALSE, "logo", ".png"), Name(FALSE, "main", ".ts"),
    Name(FALSE, "node_modules", ""), Name(FALSE, "Proj", ""), Name(FALSE, "Project", ""),
    Name(FALSE, "README", ".md"), Name(FALSE, "src", ""), Name(FALSE, "utils", "")>>
Rank(nm) == CHOOSE k \in 1..Len(NameOrder) : NameOrder[k] = nm
localeCompare(a, b) ==
  IF Rank(a) < Rank(b) THEN -1 ELSE IF Rank(a) > Rank(b) THEN 1 ELSE 0

\* the entries of IGNORE_LIST the names above can meet
IGNORE_LIST == {"node_modules", ".git", "dist", "build", ".env", ".png", ".jpg"}

isSystemIgnored(nm) ==
  \/ nm.dot
  \/ NameText(nm) \in IGNORE_LIST
  \/ nm.ext # "" /\ nm.ext \in IGNORE_LIST

\* the comparator of sortNodes
compareNames(a, b) == localeCompare(a.name, b.name)
compare(a, b) ==
  IF a.kind = b.kind THEN localeCompare(a.name, b.name)
  ELSE IF a.kind = "directory" THEN -1 ELSE 1

\* nodes.sort(compare): a stable sort
InsertNode(sorted, n) ==
  LET k == Cardinality({i \in 1..Len(sorted) : compare(sorted[i], n) <= 0})
  IN SubSeq(sorted, 1, k) \o <<n>> \o SubSeq(sorted, k + 1, Len(sorted))
RECURSIVE sortNodes(_)
sortNodes(nodes) ==
  IF nodes = <<>> THEN <<>> ELSE InsertNode(sortNodes(Front(nodes)), Last(nodes))

TreeNode(name, kind, path, children) ==
  [name |-> name, kind |-> kind, path |-> path, children |-> children]

\* ---- openDirectory / readDirectory: the files are those of a directory on disk
\* dirHandle.values(): the names in the directory at currentPath
EntriesAt(files, currentPath) ==
  {q[Len(currentPath) + 1] :
     q \in {f \in files : /\ Len(f) > Len(currentPath)
                          /\ SubSeq(f, 1, Len(currentPath)) = currentPath}}
EntryKind(files, path) == IF path \in files THEN "file" ELSE "directory"

RECURSIVE readDirectory(_, _, _)
readDirectory(files, currentPath, listing) ==
  LET names == SelectSeq(listing, LAMBDA nm : /\ nm \in EntriesAt(files, currentPath)
                                              /\ ~isSystemIgnored(nm))
      children == [k \in 1..Len(names) |->
                     LET path == Append(currentPath, names[k])
                     IN TreeNode(names[k], EntryKind(files, path), path,
                                 IF EntryKind(files, path) = "directory"
                                   THEN readDirectory(files, path, listing)
                                   ELSE <<>>)]
  IN sortNodes(children)

openDirectory(rootName, files, listing) ==
  TreeNode(rootName, "directory", <<rootName>>,
           readDirectory(files, <<rootName>>, listing))

\* ---- the map of processFileList and loadGithubRepo: path -> node, children as paths
NewMap(rootName) ==
  [p \in {<<rootName>>} |-> [name |-> rootName, kind |-> "directory", children |-> <<>>]]

\* the inner loop from part j on: a child is made where the map has none
RECURSIVE InsertParts(_, _, _, _, _)
InsertParts(map, currentPath, parts, j, lastKind) ==
  IF j > Len(parts) THEN map
  ELSE LET path == Append(currentPath, parts[j])
           child == [name |-> parts[j],
                     kind |-> IF j = Len(parts) THEN lastKind ELSE "directory",
                     children |-> <<>>]
           next == IF path \in DOMAIN map THEN map
                   ELSE [p \in DOMAIN map \cup {path} |->
                           IF p = path THEN child
                           ELSE IF p = currentPath
                           THEN [map[p] EXCEPT !.children = Append(@, path)]
                           ELSE map[p]]
       IN InsertParts(next, path, parts, j + 1, lastKind)

\* pathParts.some(part => isSystemIgnored(part))
LastPartIgnored(parts) == isSystemIgnored(Last(parts))
AnyPartIgnored(parts) == \E k \in 1..Len(parts) : isSystemIgnored(parts[k])

\* sortRecursive(root)
RECURSIVE sortRecursive(_, _)
sortRecursive(map, path) ==
  TreeNode(map[path].name, map[path].kind, path,
           sortNodes([k \in 1..Len(map[path].children) |->
                        sortRecursive(map, map[path].children[k])]))

\* ---- processFileList: files is the list of webkitRelativePath, split at '/'
RECURSIVE FlatLoop(_, _, _)
FlatLoop(map, files, rootName) ==
  IF files = <<>> THEN map
  ELSE FlatLoop(IF AnyPartIgnored(Head(files)) THEN map
                ELSE InsertParts(map, <<rootName>>, Head(files), 2, "file"),
                Tail(files), rootName)

processFileList(files) ==
  IF Len(files) = 0 THEN NullNode
  ELSE LET rootName == Head(files)[1]
       IN sortRecursive(FlatLoop(NewMap(rootName), files, rootName), <<rootName>>)

\* ---- loadGithubRepo from the manifest on: entries of { path, type }
RECURSIVE GithubLoop(_, _, _)
GithubLoop(map, entries, repo) ==
  IF entries = <<>> THEN map
  ELSE GithubLoop(IF AnyPartIgnored(Head(entries).path) THEN map
                  ELSE InsertParts(map, <<repo>>, Head(entries).path, 1,
                                   IF Head(entries).type = "blob" THEN "file"
                                   ELSE "directory"),
                  Tail(entries), repo)

buildGithubTree(repo, entries) ==
  sortRecursive(GithubLoop(NewMap(repo), entries, repo), <<repo>>)

\* ---- the project on offer: a root folder name and the files under it
\* the .gitignore on offer is the root's
RelPaths ==
  {<<f>> : f \in FileNames}
    \cup {<<d, f>> : d \in DirNames, f \in FileNames \ {Name(TRUE, "gitignore", "")}}
Projects ==
  [root : RootNames, files : {S \in SUBSET RelPaths : Cardinality(S) <= MaxEntries}]

\* the orders a set of paths can be listed in
Listings(S) ==
  {order \in [1..Cardinality(S) -> S] : \A i, j \in 1..Cardinality(S) :
                                           order[i] = order[j] => i = j}
\* the orders a directory on disk can list its names in
DirListings ==
  {NameOrder, [k \in 1..Len(NameOrder) |-> NameOrder[Len(NameOrder) + 1 - k]]}

\* the paths of a project from its root folder on
FullPaths(pr) == {<<pr.root>> \o f : f \in pr.files}

\* the manifest of a repository holding the files: a tree entry for a directory ahead
\* of the entries below it, a blob entry for a file
RECURSIVE Manifest(_, _)
Manifest(files, seen) ==
  IF files = <<>> THEN <<>>
  ELSE LET f == Head(files)
           dir == IF Len(f) > 1 /\ Front(f) \notin seen
                    THEN <<[path |-> Front(f), type |-> "tree"]>> ELSE <<>>
       IN dir \o <<[path |-> f, type |-> "blob"]>>
              \o Manifest(Tail(files), seen \cup {Front(f)})

\* ---- strings as sequences of characters
startsWith(s, p) == Len(p) <= Len(s) /\ SubSeq(s, 1, Len(p)) = p
endsWith(s, p) == Len(p) <= Len(s) /\ SubSeq(s, Len(s) - Len(p) + 1, Len(s)) = p
includes(s, p) == \E i \in 0..(Len(s) - Len(p)) : SubSeq(s, i + 1, i + Len(p)) = p
\* s.split(sep) for a separator of one character
RECURSIVE split(_, _)
split(s, sep) ==
  IF \A i \in 1..Len(s) : s[i] # sep THEN <<s>>
  ELSE LET i == CHOOSE i \in 1..Len(s) : s[i] = sep /\ \A j \in 1..(i - 1) : s[j] # sep
       IN <<SubSeq(s, 1, i - 1)>> \o split(SubSeq(s, i + 1, Len(s)), sep)
\* s.trim()
RECURSIVE trim(_)
trim(s) ==
  IF s # <<>> /\ Head(s) = " " THEN trim(Tail(s))
  ELSE IF s # <<>> /\ Last(s) = " " THEN trim(Front(s))
  ELSE s

\* the characters of the strings names are made of
Chars(str) ==
  CASE str = "" -> <<>>
    [] str = "src" -> <<"s", "r", "c">>
    [] str = "utils" -> <<"u", "t", "i", "l", "s">>
    [] str = "node_modules" -> <<"n", "o", "d", "e", "_", "m", "o", "d", "u", "l", "e", "s">>
    [] str = "app" -> <<"a", "p", "p">>
    [] str = "main" -> <<"m", "a", "i", "n">>
    [] str = "logo" -> <<"l", "o", "g", "o">>
    [] str = "env" -> <<"e", "n", "v">>
    [] str = "gitignore" -> <<"g", "i", "t", "i", "g", "n", "o", "r", "e">>
    [] str = "Proj" -> <<"P", "r", "o", "j">>
    [] str = "build" -> <<"b", "u", "i", "l", "d">>
    [] str = ".ts" -> <<".", "t", "s">>
    [] str = ".png" -> <<".", "p", "n", "g">>
    [] str = " " -> <<" ">>
    [] str = "." -> <<".">>
    [] str = "git" -> <<"g", "i", "t">>
    [] str = "png" -> <<"p", "n", "g">>
    [] str = "jpg" -> <<"j", "p", "g">>
    [] str = "tsx" -> <<"t", "s", "x">>
    [] str = "dist" -> <<"d", "i", "s", "t">>
    [] str = "image" -> <<"i", "m", "a", "g", "e">>
    [] str = "App" -> <<"A", "p", "p">>
\* the name as a string, and a path as its names joined by '/'
Spelled(nm) == (IF nm.dot THEN <<".">> ELSE <<>>) \o Chars(nm.stem) \o Chars(nm.ext)
RECURSIVE PathText(_)
PathText(path) ==
  IF Len(path) = 1 THEN Spelled(path[1])
  ELSE PathText(Front(path)) \o <<"/">> \o Spelled(Last(path))

\* ---- ExportModal.tsx: the rules of a .gitignore
\* the file's text to its rules: lines trimmed, blank lines and comments dropped, a
\* leading slash removed
parseGitIgnore(content) ==
  LET lines == split(content, "\n")
      kept == SelectSeq([k \in 1..Len(lines) |-> trim(lines[k])],
                        LAMBDA line : line # <<>> /\ ~startsWith(line, <<"#">>))
  IN [k \in 1..Len(kept) |-> IF startsWith(kept[k], <<"/">>) THEN Tail(kept[k]) ELSE kept[k]]

\* the body of rules.some(rule => ...)
matchesAsPrefix(filePath, rule) == filePath = rule \/ startsWith(filePath, rule \o <<"/">>)
matchesRule(filePath, rule) ==
  IF startsWith(rule, <<"*">>) THEN endsWith(filePath, Tail(rule))
  ELSE IF endsWith(rule, <<"/">>)
  THEN \/ includes(filePath, <<"/">> \o Front(rule) \o <<"/">>)
       \/ startsWith(filePath, Front(rule) \o <<"/">>)
       \/ filePath = Front(rule)
  ELSE filePath = rule \/ startsWith(filePath, rule \o <<"/">>)

isGitIgnored(filePath, rules) == \E k \in 1..Len(rules) : matchesRule(filePath, rules[k])

\* ---- scanProject, passes 1 and 2, on a tree of the constructions
\* what readFileContent(gitIgnoreFile) can give: the text, or a rejection
IgnoreFileReads ==
  {[ok |-> FALSE, content |-> <<>>],
   [ok |-> TRUE, content |-> <<"s", "r", "c", "/", "\n", "*", ".", "t", "s">>]}

\* rootNode.children.find(c => c.name === '.gitignore'): its place, 0 when none
gitIgnoreFile(root) ==
  IF \E k \in 1..Len(root.children) : root.children[k].name = Name(TRUE, "gitignore", "")
  THEN CHOOSE k \in 1..Len(root.children) :
         /\ root.children[k].name = Name(TRUE, "gitignore", "")
         /\ \A j \in 1..(k - 1) : root.children[j].name # Name(TRUE, "gitignore", "")
  ELSE 0

gitIgnoreRules(root, useGitIgnore, read) ==
  IF useGitIgnore /\ gitIgnoreFile(root) # 0 /\ read.ok
  THEN parseGitIgnore(read.content) ELSE <<>>

\* node.path relative to the root
relPath(node, root) ==
  IF startsWith(PathText(node.path), PathText(root.path))
  THEN SubSeq(PathText(node.path), Len(PathText(root.path)) + 2, Len(PathText(node.path)))
  ELSE PathText(node.path)

\* traverse(node) of scanProject with the rules in hand; traverseOn is the same without
\* the early returns
RECURSIVE traverseOn(_, _, _, _), TraverseOnEach(_, _, _, _)
traverseOn(node, root, useGitIgnore, rules) ==
  (IF node.kind = "file" THEN <<node>> ELSE <<>>)
    \o TraverseOnEach(node.children, root, useGitIgnore, rules)
TraverseOnEach(nodes, root, useGitIgnore, rules) ==
  IF nodes = <<>> THEN <<>>
  ELSE traverseOn(Head(nodes), root, useGitIgnore, rules)
         \o TraverseOnEach(Tail(nodes), root, useGitIgnore, rules)

RECURSIVE traverseWith(_, _, _, _), TraverseWithEach(_, _, _, _)
traverseWith(node, root, useGitIgnore, rules) ==
  IF isSystemIgnored(node.name) THEN <<>>
  ELSE IF /\ useGitIgnore /\ Len(rules) > 0 /\ relPath(node, root) # <<>>
          /\ isGitIgnored(relPath(node, root), rules)
  THEN <<>>
  ELSE (IF node.kind = "file" THEN <<node>> ELSE <<>>)
         \o TraverseWithEach(node.children, root, useGitIgnore, rules)
TraverseWithEach(nodes, root, useGitIgnore, rules) ==
  IF nodes = <<>> THEN <<>>
  ELSE traverseWith(Head(nodes), root, useGitIgnore, rules)
         \o TraverseWithEach(Tail(nodes), root, useGitIgnore, rules)

\* scanProject up to setTotalFiles, on the tree a construction returned
ScanTree ==
  /\ scanned = NotLoaded
  /\ \E source \in {"native", "flat", "remote"}, useGitIgnore \in BOOLEAN,
        read \in IgnoreFileReads :
       LET root == IF source = "native" THEN native
                   ELSE IF source = "flat" THEN flat ELSE remote
           rules == gitIgnoreRules(root, useGitIgnore, read)
       IN /\ root # NotLoaded
          /\ scanned' = [source |-> source, useGitIgnore |-> useGitIgnore,
                         root |-> root, rules |-> rules,
                         candidates |-> traverseWith(root, root, useGitIgnore, rules)]
  /\ UNCHANGED <<project, native, flat, remote, agentVars, bundleVars, storeVars, pureVars,
                 callVars>>

\* handleOpenProject: the folder is picked through the directory picker
OpenDirectory ==
  /\ native = NotLoaded
  /\ \E listing \in DirListings :
        native' = openDirectory(project.root, FullPaths(project), listing)
  /\ UNCHANGED <<project, flat, remote, scanned, agentVars, bundleVars, storeVars, pureVars,
                 callVars>>

\* handleFileInputChange: the folder is picked through the file input, which hands
\* over its files (at least one) in some order
ProcessFileList ==
  /\ flat = NotLoaded
  /\ project.files # {}
  /\ \E files \in Listings(FullPaths(project)) : flat' = processFileList(files)
  /\ UNCHANGED <<project, native, remote, scanned, agentVars, bundleVars, storeVars, pureVars,
                 callVars>>

\* loadGithubRepo once both fetches have succeeded: the repository has the root's name
LoadGithubTree ==
  /\ remote = NotLoaded
  /\ \E files \in Listings(project.files) :
        remote' = buildGithubTree(project.root, Manifest(files, {}))
  /\ UNCHANGED <<project, native, flat, scanned, agentVars, bundleVars, storeVars, pureVars,
                 callVars>>

NextLoaders ==
  \/ OpenDirectory
  \/ ProcessFileList
  \/ LoadGithubTree
  \/ ScanTree

InitLoaders ==
  /\ AgentInit
  /\ NoBundle
  /\ StoreInit
  /\ project \in Projects
  /\ native = NotLoaded
  /\ flat = NotLoaded
  /\ remote = NotLoaded
  /\ scanned = NotLoaded
  /\ NoInput

SpecLoaders == InitLoaders /\ [][NextLoaders]_vars

\* ========================================== functions, called on their own
\* ---- isGitIgnored(filePath, rules)
PathChars == {"a", "b", "/"}
RuleChars == {"a", "b", "/", "*"}
\* the relative path of a node: names that are not empty, joined by '/'
Paths ==
  {path \in SeqsUpTo(PathChars, MaxPathLen) :
     /\ path # <<>>
     /\ \A k \in 1..Len(split(path, "/")) : split(path, "/")[k] # <<>>}
Rules == SeqsUpTo(RuleChars, MaxRuleLen) \ {<<>>}
\* no rule, one rule, or a suffix rule ahead of a rule of up to two characters
RuleLists ==
  {<<>>} \cup {<<rule>> : rule \in Rules}
         \cup {<<<<"*", "a">>, rule>> : rule \in SeqsUpTo(RuleChars, 2) \ {<<>>}}

\* ---- isSystemIgnored(fileName) on the characters of the name
\* a name is put together from these pieces
Tokens24 == {" ", ".", "git", "node_modules", "image", "png", "App", "tsx"}
RECURSIVE TextOf(_)
TextOf(tokens) ==
  IF tokens = <<>> THEN <<>> ELSE Chars(Head(tokens)) \o TextOf(Tail(tokens))
\* IGNORE_LIST, character by character
IgnoreTable ==
  {TextOf(<<"node_modules">>), TextOf(<<".", "git">>), TextOf(<<"dist">>),
   TextOf(<<"build">>), TextOf(<<".", "env">>), TextOf(<<".", "png">>),
   TextOf(<<".", "jpg">>)}

\* trimmed.lastIndexOf('.'), counted from 0, -1 when there is none
lastIndexOfDot(str) ==
  IF \A i \in 1..Len(str) : str[i] # "." THEN -1
  ELSE (CHOOSE i \in 1..Len(str) : str[i] = "." /\ \A j \in (i + 1)..Len(str) : str[j] # ".") - 1

untrimmed(fileName) == fileName
trimmed(fileName) == trim(fileName)

isSystemIgnoredText(fileName) ==
  \/ startsWith(trimmed(fileName), <<".">>) /\ trimmed(fileName) # <<".">>
  \/ trimmed(fileName) \in IgnoreTable
  \/ /\ lastIndexOfDot(trimmed(fileName)) > 0
     /\ SubSeq(trimmed(fileName), lastIndexOfDot(trimmed(fileName)) + 1,
               Len(trimmed(fileName))) \in IgnoreTable

\* ---- processFileList on the list of the test
TestFiles ==
  <<<<Name(FALSE, "Project", ""), Name(FALSE, "src", ""), Name(FALSE, "app", ".tsx")>>,
    <<Name(FALSE, "Project", ""), Name(FALSE, "src", ""), Name(FALSE, "utils", ""),
      Name(FALSE, "helpers", ".ts")>>,
    <<Name(FALSE, "Project", ""), Name(FALSE, "README", ".md")>>>>
\* the list in every order, and the empty list
FileLists == {<<>>} \cup {[k \in 1..3 |-> TestFiles[order[k]]] : order \in Permutations(1..3)}

\* ---- the calls
Inputs ==
  [fn : {"isGitIgnored"}, filePath : Paths, rules : RuleLists]
    \cup [fn : {"isSystemIgnored"}, tokens : SeqsUpTo(Tokens24, MaxTokens)]
    \cup [fn : {"processFileList"}, files : FileLists]

Returns(value) == [kind |-> "returned", value |-> value]

CallIsGitIgnored ==
  /\ input.fn = "isGitIgnored"
  /\ output = NotApplied
  /\ output' = Returns(isGitIgnored(input.filePath, input.rules))
  /\ UNCHANGED <<input, agentVars, bundleVars, storeVars, loaderVars, callVars>>

CallIsSystemIgnored ==
  /\ input.fn = "isSystemIgnored"
  /\ output = NotApplied
  /\ output' = Returns(isSystemIgnoredText(TextOf(input.tokens)))
  /\ UNCHANGED <<input, agentVars, bundleVars, storeVars, loaderVars, callVars>>

CallProcessFileList ==
  /\ input.fn = "processFileList"
  /\ output = NotApplied
  /\ output' = Returns(processFileList(input.files))
  /\ UNCHANGED <<input, agentVars, bundleVars, storeVars, loaderVars, callVars>>

NextPure ==
  \/ CallIsGitIgnored
  \/ CallIsSystemIgnored
  \/ CallProcessFileList

InitPure ==
  /\ AgentInit
  /\ NoBundle
  /\ StoreInit
  /\ NoLoaders
  /\ input \in Inputs
  /\ output = NotApplied

SpecPure == InitPure /\ [][NextPure]_vars

\* ================================================================= claims
\* ---------------------------------------------------------------- agent loop
\* C1: once stopAgent has been called during an in-flight sendMessage, agentActivity
\* is idle in every state until the next sendMessage call. The abort flag is set by
\* stopAgent alone and unset by the next sendMessage alone.
C1_IdleOnceStopped == abortStreamRef => agentActivity = "idle"

\* C2: while the abort flag set by stopAgent stays set, no sendMessage call enters
\* executeTool with a further request and none submits a continuation turn.
C2_NothingRunsOnceStopped ==
  [][abortStreamRef /\ abortStreamRef' =>
       \A i \in Sends : /\ Len(hist'[i].execLog) <= Len(hist[i].execLog)
                        /\ hist'[i].turns = hist[i].turns]_vars

\* the calls run so far in the turn are the first requests of the turn, in order
RunInOrder(i) == IsPrefix(hist[i].execLog, frame[i].toolCalls)

\* the continuation of a turn carries one result per request, in the order of the
\* requests
CarriesAllResults(i) ==
  /\ hist[i].execLog = frame[i].toolCalls
  /\ Len(frame[i].input.parts) = Len(frame[i].toolCalls)
  /\ \A k \in 1..Len(frame[i].toolCalls) :
        frame[i].input.parts[k].name = frame[i].toolCalls[k].name

Continuing(i) == frame[i].pc = "awaitStream" /\ frame[i].input.kind = "parts"

C3_State(i) ==
  /\ frame[i].pc \in {"toolWait", "toolReturn"} =>
        /\ RunInOrder(i)
        /\ Len(hist[i].execLog) = Len(frame[i].responses) + 1
  /\ Continuing(i) => CarriesAllResults(i)

C4_OneRecordAppended ==
  \A i \in Sends :
    frame[i].pc = "done" /\ hist[i].turns = 1 /\ hist[i].errorShown = 0 =>
      hist[i].appended = 1

\* C5: an error raised while establishing or using the session ends the call with
\* exactly one error-flagged message appended; it does not escape sendMessage.
C5_SessionErrorShownOnce ==
  \A i \in Sends :
    hist[i].sessionError => frame[i].pc = "done" /\ hist[i].errorShown = 1

C7_TextOnlyGrows ==
  [][/\ \A j \in Sends : j > 1 => frame[j].pc = "idle"
     /\ Len(chatMessages) > 0
     /\ Len(chatMessages') = Len(chatMessages)
     /\ Last(chatMessages).role = "model"
     /\ Last(chatMessages').role = "model"
     => IsPrefix(Last(chatMessages).text, Last(chatMessages').text)]_vars

\* ------------------------------------------------------------------ bundling
\* C8: a scanProject call during which the abort flag was set does not reach the
\* end of the function, where status becomes ready and the artifact is stored.
C8_AbortedRunNeverReady == \A r \in Scans : run[r].aborted => run[r].pc # "done"

\* C9: stats.count of a finished run is the number of <file> records of the artifact.
C9_CountIsEmittedRecords ==
  contextContent.closed => stats.count = Len(contextContent.files)

\* the place of a path among the candidates
Place(cands, path) == CHOOSE j \in 1..Len(cands) : cands[j].path = path

InCandidateOrder(files) ==
  LET cands == traverse(rootNode)
  IN /\ \A k \in 1..Len(files) : \E j \in 1..Len(cands) : cands[j].path = files[k].path
     /\ \A a, b \in 1..Len(files) :
           a < b => Place(cands, files[a].path) < Place(cands, files[b].path)

\* C10: the <file> records of the artifact, finished or being built, are in
\* candidate order, whatever order the reads settled in.
C10_RecordsInCandidateOrder ==
  /\ InCandidateOrder(contextContent.files)
  /\ \A r \in Scans : InCandidateOrder(run[r].output.files)

\* a finished artifact with records of two batches
C10_Witness ==
  /\ contextContent.closed
  /\ Len(contextContent.files) > CHUNK_SIZE

\* the candidates that are readable, non-empty text
TextCandidates == SelectSeq(traverse(rootNode), LAMBDA c : disk[c.id] = Text)

\* C11: the <file> records of a finished artifact are the records of the readable,
\* non-empty, null-free candidates, every one of them and no other: a candidate that
\* is empty, binary or unreadable leaves no record and does not keep the run from
\* emitting the rest.
C11_SkippedFilesLeaveTheRest ==
  contextContent.closed =>
    contextContent.files =
      [k \in 1..Len(TextCandidates) |->
         [path |-> TextCandidates[k].path, content |-> Text.content]]

\* a finished artifact of a project where a candidate is skipped and a candidate
\* after it is emitted
C11_Witness ==
  /\ contextContent.closed
  /\ \E a, b \in 1..Len(traverse(rootNode)) :
        /\ a < b
        /\ disk[traverse(rootNode)[a].id] \in BadFiles
        /\ \E k \in 1..Len(contextContent.files) :
              contextContent.files[k].path = traverse(rootNode)[b].path

\* a step in which executeTool ran the call named nm through to its return
ToolStep(nm) ==
  /\ tools.pc = "loop"
  /\ tools'.pc = "loop"
  /\ tools'.calls = tools.calls - 1
  /\ tools'.last.name = nm

\* C12: within one agent turn every select_files(P) leaves the selection as the
\* selection before the call united with P, and every deselect_files(P) leaves it as the
\* selection before the call without P, so that the calls of a turn apply in order and
\* a path added by an earlier call of the turn is still selected
C12_CallsApplyInOrder ==
  [][/\ ToolStep("select_files") => selectedPaths' = selectedPaths \cup tools'.last.paths
     /\ ToolStep("deselect_files") => selectedPaths' = selectedPaths \ tools'.last.paths]_vars

\* the tree the tools read has no node with that path
NoNodeAt(path) ==
  \/ rootNodeRef = NullNode
  \/ findNodeByPath(rootNodeRef, path) = NullNode

\* a step in which executeTool took up a read_file call
ReadFileCalled ==
  /\ tools.pc = "loop"
  /\ tools' # tools
  /\ tools'.last.name = "read_file"

\* a step in which read_file returned the content it read
ReadFileReturnedContent ==
  /\ tools.pc = "reading"
  /\ tools'.last.response.kind = "content"

\* C13: read_file(path) returns the not-found result and leaves the cache alone when
\* no node of the tree has that path; the content it returns otherwise is the content
\* it stored in the cache under the node's path, cut to at most 10000 characters
C13_ReadFileFoundOrNot ==
  [][/\ ReadFileCalled /\ NoNodeAt(tools'.last.path)
          => /\ tools'.pc = "loop"
             /\ tools'.last.response.kind = "notFound"
             /\ loadedFiles' = loadedFiles
     /\ ReadFileCalled /\ ~NoNodeAt(tools'.last.path) => tools'.pc = "reading"
     /\ ReadFileReturnedContent
          => /\ tools.node.path \in DOMAIN loadedFiles'
             /\ \A p \in DOMAIN loadedFiles' \ {tools.node.path} :
                   p \in DOMAIN loadedFiles /\ loadedFiles'[p] = loadedFiles[p]
             /\ tools'.last.response.content.text = loadedFiles'[tools.node.path].text
             /\ tools'.last.response.content.len
                  = (IF loadedFiles'[tools.node.path].len < 10000
                       THEN loadedFiles'[tools.node.path].len ELSE 10000)]_vars

\* C14: list_files returns the paths of the file nodes of the tree, in child order,
\* and with no tree loaded it returns an error in place of a list
C14_ListFilesOrNoProject ==
  [][ToolStep("list_files")
       => IF rootNodeRef = NullNode
            THEN tools'.last.response.kind = "error"
            ELSE /\ tools'.last.response.kind = "files"
                 /\ tools'.last.response.files
                      = [k \in 1..Len(rootNodeRef.children) |-> rootNodeRef.children[k].path]]_vars

\* C15: refreshProject starts only while no agent turn and no export scan is running
C15_RefreshOnlyWhenQuiet ==
  [][load.pc = "idle" /\ load'.pc = "refresh"
       => agentActivity = "idle" /\ status # "scanning"]_vars

\* a step in which the load awaited by op settled with that outcome
LoadStep(op, outcomes) ==
  /\ load.pc = op
  /\ load'.pc = "idle"
  /\ load'.settled \in outcomes

\* C16: a successful refreshProject puts a tree in place, empties the cache and leaves
\* the selection as it was; every other step that changes the tree (a project load,
\* a successful import, closing the project) empties the selection and the cache
C16_RefreshKeepsSelection ==
  [][/\ LoadStep("refresh", {"ok"})
          => /\ rootNode' # NullNode
             /\ loadedFiles' = EmptyMap
             /\ selectedPaths' = selectedPaths
     /\ \/ LoadStep("import", {"ok"})
        \/ rootNode' # rootNode /\ load.pc # "refresh"
        \/ rootNode' # rootNode /\ load'.pc = "refresh"
          => /\ loadedFiles' = EmptyMap
             /\ selectedPaths' = {}]_vars

\* the refresh has succeeded and a selected path is not in the tree it loaded
C16_Witness ==
  /\ load.pc = "idle"
  /\ load.op = "refresh"
  /\ load.settled = "ok"
  /\ loadedFiles = EmptyMap
  /\ \E p \in selectedPaths : findNodeByPath(rootNode, p) = NullNode

\* C17: loadGithubRepo raises, with no tree, when the repository fetch or the manifest
\* fetch fails, and then importGithubProject and refreshProject leave the tree, the
\* selection, the cache and the recent list as they were and end with isProcessing false
C17_FailedLoadChangesNothing ==
  [][/\ \A o \in LoadOutcomes \ {"ok"}, n \in 0..MaxPaths : loadGithubRepo(o, n) = Raised
     /\ LoadStep("import", LoadOutcomes \ {"ok"}) \/ LoadStep("refresh", LoadOutcomes \ {"ok"})
          => /\ UNCHANGED <<rootNode, selectedPaths, loadedFiles, recentRepos>>
             /\ isProcessing /\ ~isProcessing']_vars

\* a refresh has failed on the manifest with a tree, a selection, a cache and a recent
\* list in place
C17_Witness ==
  /\ load.pc = "idle"
  /\ load.op = "refresh"
  /\ load.settled = "manifestFails"
  /\ rootNode # NullNode
  /\ selectedPaths # {}
  /\ loadedFiles # EmptyMap
  /\ recentRepos # <<>>
  /\ ~isProcessing

\* the trees the constructions have returned
Built == {t \in {native, flat, remote} : t # NotLoaded}

\* directories ahead of files and, within a kind, names ascending, in children and below
RECURSIVE OrderedBelow(_)
OrderedBelow(node) ==
  /\ \A i, j \in 1..Len(node.children) :
        i < j => /\ node.children[i].kind = "file" => node.children[j].kind = "file"
                 /\ node.children[i].kind = node.children[j].kind
                      => Rank(node.children[i].name) < Rank(node.children[j].name)
  /\ \A k \in 1..Len(node.children) : OrderedBelow(node.children[k])

RECURSIVE DirectoriesOf(_)
DirectoriesOf(node) ==
  IF node.kind # "directory" THEN {}
  ELSE {node.path} \cup UNION {DirectoriesOf(node.children[k]) : k \in 1..Len(node.children)}
RECURSIVE NodeAt(_, _)
NodeAt(node, path) ==
  IF node.path = path THEN node
  ELSE LET below == {k \in 1..Len(node.children) :
                       /\ Len(node.children[k].path) <= Len(path)
                       /\ SubSeq(path, 1, Len(node.children[k].path)) = node.children[k].path}
       IN NodeAt(node.children[CHOOSE k \in below : TRUE], path)
ChildNames(node, path) ==
  [k \in 1..Len(NodeAt(node, path).children) |-> NodeAt(node, path).children[k].name]
FilePathSet(node) == {FilePathsOf(node)[k] : k \in 1..Len(FilePathsOf(node))}

\* the names of seq that other has too, in the order of seq
Shared(seq, other) ==
  SelectSeq(seq, LAMBDA n : \E k \in 1..Len(other) : other[k] = n)

\* C19: the three constructions make of one project trees with the same set of file
\* paths, and a directory that two of the trees have lists the children the two have in
\* common in the same order
C19_SameTreeFromEverySource ==
  \A t, u \in Built :
     /\ FilePathSet(t) = FilePathSet(u)
     /\ \A d \in DirectoriesOf(t) \cap DirectoriesOf(u) :
           Shared(ChildNames(t, d), ChildNames(u, d))
             = Shared(ChildNames(u, d), ChildNames(t, d))

\* the paths of all nodes of a tree
RECURSIVE PathsOf(_)
PathsOf(node) ==
  {node.path} \cup UNION {PathsOf(node.children[k]) : k \in 1..Len(node.children)}
\* the paths of the project that have no system-ignored segment, the root's included
KeptPaths ==
  {f \in FullPaths(project) : \A k \in 1..Len(f) : ~isSystemIgnored(f[k])}

\* C20: the tree processFileList returns has as its files exactly the paths of the list
\* with no system-ignored segment, and has no node but the root and what leads to them
C20_IgnoredEntriesLeaveNoNode ==
  flat # NotLoaded
    => /\ FilePathSet(flat) = KeptPaths
       /\ PathsOf(flat) = {<<project.root>>}
                            \cup UNION {{SubSeq(f, 1, k) : k \in 1..Len(f)} : f \in KeptPaths}

\* processFileList has returned for a list with an entry below node_modules, a
\* dot-named entry and an entry below src, and only the last is in the tree
C20_Witness ==
  /\ flat # NotLoaded
  /\ project.root = Name(FALSE, "Proj", "")
  /\ <<Name(FALSE, "node_modules", ""), Name(FALSE, "app", ".ts")>> \in project.files
  /\ <<Name(TRUE, "env", "")>> \in project.files
  /\ <<Name(FALSE, "src", ""), Name(FALSE, "app", ".ts")>> \in project.files
  /\ FilePathSet(flat)
       = {<<Name(FALSE, "Proj", ""), Name(FALSE, "src", ""), Name(FALSE, "app", ".ts")>>}

\* the path, relative to the root, of the node that is k names down the path of c
RelPrefix(c, k) == SubSeq(PathText(SubSeq(c.path, 1, k)), Len(PathText(SubSeq(c.path, 1, 1))) + 2,
                          Len(PathText(SubSeq(c.path, 1, k))))
\* the rules of the scan are enabled and one of them matches the path
RuleExcludes(text) ==
  /\ scanned.useGitIgnore
  /\ scanned.rules # <<>>
  /\ isGitIgnored(text, scanned.rules)

\* C21: no candidate of a scan has a system-ignored name or a path an enabled rule
\* matches, and none lies below a directory that is system-ignored or that an enabled
\* rule matches
C21_IgnoredDirectoryHidesSubtree ==
  scanned # NotLoaded
    => \A i \in 1..Len(scanned.candidates) :
          LET c == scanned.candidates[i]
          IN /\ c.kind = "file"
             /\ \A k \in 1..Len(c.path) : ~isSystemIgnored(c.path[k])
             /\ \A k \in 2..Len(c.path) : ~RuleExcludes(RelPrefix(c, k))

\* a tree with files below a system-ignored root has been scanned: no candidate
C21_Witness ==
  /\ scanned # NotLoaded
  /\ isSystemIgnored(scanned.root.name)
  /\ FilePathsOf(scanned.root) # <<>>
  /\ scanned.candidates = <<>>

\* C22: a scan with the ignore file enabled, of a project that has a .gitignore in its
\* root folder, finds that file among the root's children, and no candidate matches a
\* rule of the file
C22_IgnoreFileIsLocated ==
  /\ scanned # NotLoaded
  /\ scanned.useGitIgnore
  /\ <<Name(TRUE, "gitignore", "")>> \in project.files
  => /\ gitIgnoreFile(scanned.root) # 0
     /\ \A read \in IgnoreFileReads, i \in 1..Len(scanned.candidates) :
           read.ok => ~isGitIgnored(relPath(scanned.candidates[i], scanned.root),
                                    parseGitIgnore(read.content))

\* isGitIgnored has returned for the path and the rules of input
GitIgnoredReturned == input.fn = "isGitIgnored" /\ output # NotApplied

\* a rule as the statement reads it: d is one segment of the path, ahead of another
\* segment or the whole path
StatedMatch(path, rule) ==
  IF Head(rule) = "*" THEN endsWith(path, Tail(rule))
  ELSE IF Last(rule) = "/"
  THEN LET segs == split(path, "/")
       IN \/ path = Front(rule)
          \/ \E k \in 1..(Len(segs) - 1) : segs[k] = Front(rule)
  ELSE path = rule \/ startsWith(path, rule \o <<"/">>)

\* C23 as stated: isGitIgnored is true exactly when some rule matches, a rule '*s' when
\* the path ends with s, a rule 'd/' when d is a segment of the path (leading, embedded
\* or the whole path), any other rule r when the path is r or starts with r + '/'
C23_MatchesAsStated ==
  GitIgnoredReturned
    => output.value = (\E k \in 1..Len(input.rules) :
                          StatedMatch(input.filePath, input.rules[k]))

\* a rule 'd/' where d may itself hold slashes: the segments of d are a run of whole
\* segments of the path, ahead of another segment or making up the whole path
RunMatch(path, rule) ==
  IF Head(rule) = "*" THEN endsWith(path, Tail(rule))
  ELSE IF Last(rule) = "/"
  THEN LET segs == split(path, "/")
           want == split(Front(rule), "/")
       IN \E k \in 1..(Len(segs) - Len(want) + 1) :
             /\ SubSeq(segs, k, k + Len(want) - 1) = want
             /\ k + Len(want) - 1 < Len(segs) \/ Len(want) = Len(segs)
  ELSE path = rule \/ startsWith(path, rule \o <<"/">>)

\* C23, amended: isGitIgnored is true exactly when some rule matches, a rule '*s' when
\* the path ends with s, a rule 'd/' when the segments of d are a run of whole segments
\* of the path that another segment follows or that is the whole path, any other rule r
\* when the path is r or starts with r + '/'
C23_MatchesOnWholeSegments ==
  GitIgnoredReturned
    => output.value = (\E k \in 1..Len(input.rules) :
                          RunMatch(input.filePath, input.rules[k]))

\* with the rules *a and b/, the path ab/b is not matched: b/ is in it, b is no segment
C23_Witness ==
  /\ GitIgnoredReturned
  /\ input.rules = <<<<"*", "a">>, <<"b", "/">>>>
  /\ input.filePath = <<"a", "b", "/", "b">>
  /\ output.value = FALSE

\* isSystemIgnored has returned for the name input.tokens spells
SystemIgnoredReturned == input.fn = "isSystemIgnored" /\ output # NotApplied

\* a name without the blanks ahead of it and after it
RECURSIVE StripLeft(_)
StripLeft(tokens) ==
  IF tokens # <<>> /\ Head(tokens) = " " THEN StripLeft(Tail(tokens)) ELSE tokens
RECURSIVE StripRight(_)
StripRight(tokens) ==
  IF tokens # <<>> /\ Last(tokens) = " " THEN StripRight(Front(tokens)) ELSE tokens
Stripped(tokens) == StripRight(StripLeft(tokens))

\* the entries of the table that the parts of Tokens24 can spell
TableEntries == {<<"node_modules">>, <<".", "git">>, <<".", "png">>}

\* the final extension of a name: from its last '.', when that is not its first character
HasIgnoredExtension(name) ==
  \E i \in 2..Len(name) :
     /\ name[i] = "."
     /\ \A j \in (i + 1)..Len(name) : name[j] # "."
     /\ SubSeq(name, i, Len(name)) \in TableEntries

\* C24: isSystemIgnored(name) is true exactly when the name, without the whitespace around
\* it, starts with '.' and is not '.', or is in the table, or has its final extension
\* (from the last '.' at an index > 0) in the table
C24_IgnoredExactlyByDotTableOrExtension ==
  SystemIgnoredReturned
    => LET name == Stripped(input.tokens)
       IN output.value = \/ name # <<>> /\ Head(name) = "." /\ name # <<".">>
                         \/ name \in TableEntries
                         \/ HasIgnoredExtension(name)

\* '   App.tsx ' is not ignored: trimmed, no leading dot, not in the table, .tsx neither
C24_Witness ==
  /\ SystemIgnoredReturned
  /\ input.tokens = <<" ", "App", ".", "tsx", " ">>
  /\ output.value = FALSE

\* C25: the token count of a finished bundle is floor(byteSize * 0.25), byteSize being
\* the size the bundle reports
C25_TokensAreFloorOfQuarter ==
  status = "ready" => stats.tokens = stats.size \div 4

\* C25, amended: the token count of a finished bundle is byteSize * 0.25 rounded to the
\* nearest integer, a half rounded up
C25_TokensAreRoundedQuarter ==
  status = "ready" => stats.tokens = (stats.size + 2) \div 4

\* a finished bundle whose size is not within half a token above a multiple of 4
C25_Witness == status = "ready" /\ stats.size % 4 \in {2, 3}

\* processFileList has returned for the list input.files
FileListReturned == input.fn = "processFileList" /\ output # NotApplied

ProjectName == Name(FALSE, "Project", "")
SrcName == Name(FALSE, "src", "")
UtilsName == Name(FALSE, "utils", "")
AppTsx == Name(FALSE, "app", ".tsx")
HelpersTs == Name(FALSE, "helpers", ".ts")
ReadmeMd == Name(FALSE, "README", ".md")

C28_OneSendMessageInFlight ==
  Cardinality({i \in Sends : InFlight(i)}) <= 1

\* ------------------------------------------------------- recent repositories
\* a call of importGithubProject(u) ends in this step
ImportEnds(u) == BagIn(u, imports) /\ imports' = imports (-) SetToBag({u})

\* where url is in the list
PlaceOf(list, url) == CHOOSE k \in 1..Len(list) : list[k] = url

\* C26: the recent list has at most 5 entries and no URL twice; right after a successful
\* import of u the list starts with u and the other entries keep their order; a failed
\* import leaves the list as it is
C26_RecentListBoundedDistinctNewestFirst ==
  /\ [](/\ Len(recentRepos) <= RecentLimit
        /\ \A i, j \in 1..Len(recentRepos) : i # j => recentRepos[i] # recentRepos[j])
  /\ [][\A u \in RecentUrls :
          ImportEnds(u) =>
            IF load'.settled = "ok"
            THEN /\ recentRepos' # <<>>
                 /\ recentRepos'[1] = u
                 /\ \A i, j \in 2..Len(recentRepos') :
                      i < j => PlaceOf(recentRepos, recentRepos'[i])
                                 < PlaceOf(recentRepos, recentRepos'[j])
            ELSE recentRepos' = recentRepos]_vars

\* the list is full and starts with the repository whose import has just succeeded
C26_Witness ==
  /\ Len(recentRepos) = RecentLimit
  /\ load.settled = "ok"
  /\ projectMetadata.url = recentRepos[1]
  /\ imports = EmptyBag

\* ------------------------------------------------------ toggleFileSelection
\* the call t of toggleFileSelection ends in this step, having awaited the content
ToggleEnds(t) == BagIn(t, toggles) /\ toggles' = toggles (-) SetToBag({t})

\* C29: a toggleFileSelection(node) that awaited the content of the file changes, when it
\* completes, the membership of node.path only: every other path is selected or not as
\* the operations that ran meanwhile left it
C29_ToggleChangesItsPathOnly ==
  [][\A t \in ToggleCalls :
       ToggleEnds(t) =>
         \A q \in StorePaths \ {t.path} : (q \in selectedPaths') = (q \in selectedPaths)]_vars

\* C30: with no tree loaded the cache is empty, and a read that toggleFileSelection began
\* on a node of a tree that is no longer the current one writes nothing into the cache
C30_CacheHoldsCurrentTreeOnly ==
  /\ [](rootNode = NullNode => loadedFiles = EmptyMap)
  /\ [][\A t \in ToggleCalls :
          ToggleEnds(t) /\ t.tree # rootNode => loadedFiles' = loadedFiles]_vars

============================================================================
